---- MODULE Spec2Model ----
(***************************************************************************)
(* Model of factorio-bp-rs: the Version transform and the serde mapping of *)
(* factorio-bp-rs/src/blueprint.rs, and the decode command of              *)
(* factorio-bp-cli/src/main.rs.                                            *)
(*                                                                         *)
(* A u64 is held as its eight base-256 digits, most significant first      *)
(* (TLC integers are 32 bits wide), so u64::to_be_bytes reads the digits   *)
(* off in order.                                                           *)
(***************************************************************************)
EXTENDS Integers, Sequences, FiniteSets, TLC

VARIABLES
    value,        \* SpecVersion: the u64 handed to Version::from
    version,      \* SpecVersion: the Version built from it
    serialized,   \* SpecVersion: what Serialize emits for the Version
    deserialized, \* SpecVersion: what Deserialize makes of that wire value
    kind,         \* SpecSchema: the document type asked for
    doc,          \* SpecSchema: the wire document (a serde_json::Value)
    parsed,       \* SpecSchema: the result of deserializing doc
    rendered,     \* SpecSchema: the parsed document serialized again
    reparsed,     \* SpecSchema: the result of deserializing rendered
    infile,       \* Spec: the file at args.infile
    outform,      \* Spec: args.outform
    pc,           \* Spec: the statement decode_bp is about to run
    input,        \* Spec: the local `input`
    parseable,    \* Spec: the local `parseable`
    input_bytes,  \* Spec: the local `input_bytes`
    json,         \* Spec: the local `json`
    typed,        \* Spec: the locals `bp` / `bp_book`
    data_to_write, \* Spec: the local `data_to_write`
    outfile,      \* Spec: the file at args.outfile
    writes,       \* Spec: how many times fs::write was called
    ran,          \* Spec: the statements run so far, in order
    result        \* Spec: what decode_bp returned

versionVars == <<value, version, serialized, deserialized>>

schemaVars == <<kind, doc, parsed, rendered, reparsed>>

cliVars ==
    <<infile, outform, pc, input, parseable, input_bytes, json, typed,
      data_to_write, outfile, writes, ran, result>>

vars == <<versionVars, schemaVars, cliVars>>

(***************************************************************************)
(* Bounds                                                                  *)
(***************************************************************************)
\* How many sample byte values a u64 digit is drawn from.
NumByteSamples == 3

\* Longest entity list of a sample blueprint.
MaxEntities == 1

\* Longest wait-condition list of a sample schedule record.
MaxWaitConditions == 1

\* Longest input file text, in characters.
MaxText == 5

\* How many line breaks are put into a sample exchange string.
MaxBreaks == 2

SampleByte(i) ==
    CASE i = 1 -> 0
      [] i = 2 -> 1
      [] i = 3 -> 255
      [] OTHER -> (i * 37) % 256

ByteSamples == {SampleByte(i) : i \in 1..NumByteSamples}

(***************************************************************************)
(* Results                                                                 *)
(***************************************************************************)
Ok(v) == [ok |-> TRUE, val |-> v]

\* A serde_json::Error; `what` keeps the reason apart for the reader.
SerdeErr(what) == [ok |-> FALSE, src |-> "serde_json", what |-> what]

(***************************************************************************)
(* JSON values (serde_json::Value)                                         *)
(***************************************************************************)
JNull == [t |-> "null"]
JBool(b) == [t |-> "bool", b |-> b]
JStr(s) == [t |-> "str", s |-> s]
\* A number literal: its sign, the eight base-256 digits of its integer part,
\* and its fraction: "int" (no fraction written), "zero" (written .0) or
\* "half" (written .5).
JNumber(neg, be, frac) == [t |-> "num", neg |-> neg, be |-> be, frac |-> frac]
JNum64(be) == JNumber(FALSE, be, "int")
JNum(n) == JNum64(<<0, 0, 0, 0, 0, n \div 65536, (n \div 256) % 256, n % 256>>)
JArr(seq) == [t |-> "arr", a |-> seq]
JObj(f) == [t |-> "obj", o |-> f]

(***************************************************************************)
(* Version (blueprint.rs 36-63)                                            *)
(***************************************************************************)
to_be_bytes(v) == v

from_be_bytes_u16(x, y) == 256 * x + y

from_le_bytes_u16(x, y) == x + 256 * y

VersionFromU64_swapped(v) ==
    LET bytes == to_be_bytes(v)
        version_numbers == [i \in 0..3 |->
            from_be_bytes_u16(bytes[i * 2 + 1], bytes[i * 2 + 2])]
    IN  [major |-> version_numbers[0], minor |-> version_numbers[1],
         patch |-> version_numbers[2], developer |-> version_numbers[3]]

\* impl From<u64> for Version; bytes[] is 0-based in the source, 1-based here.
VersionFromU64(v) ==
    LET bytes == to_be_bytes(v)
        version_numbers == [i \in 0..3 |->
            from_le_bytes_u16(bytes[i * 2 + 1], bytes[i * 2 + 2])]
    IN  [major |-> version_numbers[0], minor |-> version_numbers[1],
         patch |-> version_numbers[2], developer |-> version_numbers[3]]

(***************************************************************************)
(* Types of blueprint.rs, as the derive macros see them                    *)
(***************************************************************************)
Prim(n) == [k |-> "prim", name |-> n]
Struct(n) == [k |-> "struct", name |-> n]
Enum(n) == [k |-> "enum", name |-> n]
VecOf(ty) == [k |-> "vec", of |-> ty]
OptionOf(ty) == [k |-> "option", of |-> ty]
HashMapOf(kty, vty) == [k |-> "map", key |-> kty, of |-> vty]
VersionTy == [k |-> "version"]

\* A struct field: its Rust name, its wire name (serde rename), its type
\* and whether it carries #[serde(skip)].
Field(n, ty) == [field |-> n, wire |-> n, ty |-> ty, skip |-> FALSE]
Renamed(n, w, ty) == [field |-> n, wire |-> w, ty |-> ty, skip |-> FALSE]
Skipped(n, ty) == [field |-> n, wire |-> n, ty |-> ty, skip |-> TRUE]

ConnectionWrapper == HashMapOf(Prim("NonZeroUsize"), Struct("Connection"))
Direction == Prim("usize")
GraphicsVariation == Prim("u8")
ItemCountType == Prim("u32")
ItemRequest == HashMapOf(Prim("String"), ItemCountType)
ItemStackIndex == Prim("u16")

BlueprintBook ==
    << Field("item", Prim("String")),
       Field("label", Prim("String")),
       Field("label_color", Struct("Color")),
       Field("blueprints", VecOf(Struct("BookBpWrapper"))),
       Field("active_index", Prim("usize")),
       Field("version", VersionTy) >>

BookBpWrapper ==
    << Field("index", Prim("usize")),
       Field("blueprint", Struct("Blueprint")) >>

Blueprint ==
    << Field("item", Prim("String")),
       Field("label", Prim("String")),
       Field("label_color", Struct("Color")),
       Field("entities", VecOf(Struct("Entity"))),
       Field("tiles", VecOf(Struct("Tile"))),
       Field("icons", VecOf(Struct("Icon"))),
       Field("schedules", VecOf(Struct("Schedule"))),
       Field("version", VersionTy) >>

Icon ==
    << Field("index", Prim("NonZeroUsize")),
       Field("signal", Struct("SignalId")) >>

SignalId ==
    << Field("name", Prim("String")),
       Renamed("signal_type", "type", Enum("SignalType")) >>

Entity ==
    << Field("entity_number", Prim("NonZeroUsize")),
       Field("name", Prim("String")),
       Field("position", Struct("Position")),
       Field("direction", OptionOf(Direction)),
       Field("orientation", OptionOf(Prim("f64"))),
       Field("connections", OptionOf(ConnectionWrapper)),
       Renamed("neighbors", "neighbours", OptionOf(VecOf(Prim("NonZeroUsize")))),
       Field("items", ItemRequest),
       Field("recipe", Prim("String")),
       Field("bar", ItemStackIndex),
       Field("inventory", Struct("Inventory")),
       Field("infinity_settings", Struct("InfinitySettings")),
       Renamed("io_type", "type", Enum("IoType")),
       Field("input_priority", OptionOf(Enum("IoPriority"))),
       Field("output_priority", OptionOf(Enum("IoPriority"))),
       Field("filter", OptionOf(Prim("String"))),
       Field("filters", OptionOf(VecOf(Struct("ItemFilter")))),
       Field("filter_mode", Enum("FilterMode")),
       Field("override_stack_size", OptionOf(Prim("u8"))),
       Field("drop_position", Struct("Position")),
       Field("pickup_position", Struct("Position")),
       Field("request_filters", OptionOf(Struct("LogisticFilter"))),
       Field("request_from_buffers", Prim("bool")),
       Field("parameters", Struct("SpeakerParameter")),
       Field("alert_parameters", Struct("SpeakerAlertParameter")),
       Field("auto_launch", Prim("bool")),
       Field("variation", GraphicsVariation),
       Field("color", Struct("Color")),
       Field("station", Prim("String")) >>

Inventory ==
    << Field("filters", VecOf(Struct("ItemFilter"))),
       Field("bar", ItemStackIndex) >>

Schedule ==
    << Field("schedule", VecOf(Struct("ScheduleRecord"))),
       Field("locomotives", VecOf(Prim("NonZeroUsize"))) >>

ScheduleRecord ==
    << Field("station", Prim("String")),
       Field("wait_conditions", VecOf(Struct("WaitCondition"))) >>

WaitCondition ==
    << Renamed("condition_type", "type", Enum("ConditionType")),
       Field("compare_type", Enum("CompareType")),
       Field("ticks", OptionOf(Prim("usize"))),
       Skipped("condition", OptionOf(Struct("CircuitCondition"))) >>

CircuitCondition == << >>

Tile ==
    << Field("name", Prim("String")),
       Field("position", Struct("Position")) >>

Position ==
    << Field("x", Prim("f64")),
       Field("y", Prim("f64")) >>

Connection ==
    << Renamed("first", "1", Struct("ConnectionPoint")),
       Renamed("second", "2", Struct("ConnectionPoint")) >>

ConnectionPoint ==
    << Field("red", VecOf(Struct("ConnectionData"))),
       Field("green", VecOf(Struct("ConnectionData"))) >>

ConnectionData ==
    << Field("entity_id", Prim("NonZeroUsize")),
       Field("circuit_id", Enum("CircuitConnectorId")) >>

ItemFilter ==
    << Field("name", Prim("String")),
       Field("index", Prim("NonZeroUsize")) >>

InfinitySettings ==
    << Field("remove_unfiltered_items", Prim("bool")),
       Field("filters", OptionOf(VecOf(Struct("InfinityFilter")))) >>

InfinityFilter ==
    << Field("name", Prim("String")),
       Field("count", ItemCountType),
       Field("mode", Enum("InfinityFilterMode")),
       Field("index", Prim("NonZeroUsize")) >>

LogisticFilter ==
    << Field("name", Prim("String")),
       Field("index", Prim("NonZeroUsize")),
       Field("count", ItemCountType) >>

SpeakerParameter ==
    << Field("playback_volume", Prim("f64")),
       Field("playback_globally", Prim("bool")),
       Field("allow_polyphony", Prim("bool")) >>

SpeakerAlertParameter ==
    << Field("show_alert", Prim("bool")),
       Field("show_on_map", Prim("bool")),
       Field("icon_signal_id", Struct("SignalId")),
       Field("alert_message", Prim("String")) >>

Color ==
    << Field("r", Prim("f64")),
       Field("g", Prim("f64")),
       Field("b", Prim("f64")),
       Field("a", Prim("f64")) >>

\* The fields of the struct called `name`.
Fields(name) ==
    CASE name = "BlueprintBook" -> BlueprintBook
      [] name = "BookBpWrapper" -> BookBpWrapper
      [] name = "Blueprint" -> Blueprint
      [] name = "Icon" -> Icon
      [] name = "SignalId" -> SignalId
      [] name = "Entity" -> Entity
      [] name = "Inventory" -> Inventory
      [] name = "Schedule" -> Schedule
      [] name = "ScheduleRecord" -> ScheduleRecord
      [] name = "WaitCondition" -> WaitCondition
      [] name = "CircuitCondition" -> CircuitCondition
      [] name = "Tile" -> Tile
      [] name = "Position" -> Position
      [] name = "Connection" -> Connection
      [] name = "ConnectionPoint" -> ConnectionPoint
      [] name = "ConnectionData" -> ConnectionData
      [] name = "ItemFilter" -> ItemFilter
      [] name = "InfinitySettings" -> InfinitySettings
      [] name = "InfinityFilter" -> InfinityFilter
      [] name = "LogisticFilter" -> LogisticFilter
      [] name = "SpeakerParameter" -> SpeakerParameter
      [] name = "SpeakerAlertParameter" -> SpeakerAlertParameter
      [] name = "Color" -> Color

\* Unit enums: each variant with its wire name under the enum's rename_all.
Variant(v, w) == [variant |-> v, wire |-> w]

SignalType ==
    << Variant("Item", "item"), Variant("Fluid", "fluid"),
       Variant("Virtual", "virtual") >>

IoType == << Variant("Input", "input"), Variant("Output", "output") >>

IoPriority == << Variant("Right", "right"), Variant("Left", "left") >>

FilterMode ==
    << Variant("Whitelist", "whitelist"), Variant("Blacklist", "blacklist") >>

ConditionType ==
    << Variant("Time", "time"), Variant("Inactivity", "inactivity"),
       Variant("Full", "full"), Variant("Empty", "empty"),
       Variant("ItemCount", "item_count"), Variant("Circuit", "circuit"),
       Variant("RobotsInactive", "robots_inactive"),
       Variant("FluidCount", "fluid_count"),
       Variant("PassengerPresent", "passenger_present"),
       Variant("PassengerNotPresent", "passenger_not_present") >>

CompareType == << Variant("And", "and"), Variant("Or", "or") >>

CircuitConnectorId ==
    << Variant("Accumulator", "Accumulator"),
       Variant("ConstantCombinator", "ConstantCombinator"),
       Variant("Container", "Container"),
       Variant("LinkedContainer", "LinkedContainer"),
       Variant("ProgrammableSpeaker", "ProgrammableSpeaker"),
       Variant("RailSignal", "RailSignal"),
       Variant("RailChainSignal", "RailChainSignal"),
       Variant("Roboport", "Roboport"),
       Variant("StorageTank", "StorageTank"),
       Variant("Wall", "Wall"),
       Variant("ElectricPole", "ElectricPole"),
       Variant("Inserter", "Inserter"),
       Variant("Lamp", "Lamp"),
       Variant("CombinatorInput", "CombinatorInput"),
       Variant("CombinatorOutput", "CombinatorOutput"),
       Variant("OffshorePump", "OffshorePump"),
       Variant("Pump", "Pump") >>

InfinityFilterMode ==
    << Variant("AtLeast", "at-least"), Variant("AtMost", "at-most"),
       Variant("Exactly", "exactly") >>

Variants(name) ==
    CASE name = "SignalType" -> SignalType
      [] name = "IoType" -> IoType
      [] name = "IoPriority" -> IoPriority
      [] name = "FilterMode" -> FilterMode
      [] name = "ConditionType" -> ConditionType
      [] name = "CompareType" -> CompareType
      [] name = "CircuitConnectorId" -> CircuitConnectorId
      [] name = "InfinityFilterMode" -> InfinityFilterMode

(***************************************************************************)
(* Typed values (what Deserialize builds)                                  *)
(***************************************************************************)
TString(s) == [t |-> "String", s |-> s]
TUInt(be) == [t |-> "uint", be |-> be]
TF64(neg, be, half) == [t |-> "f64", neg |-> neg, be |-> be, half |-> half]
TBool(b) == [t |-> "bool", b |-> b]
TNone == [t |-> "None"]
TSome(x) == [t |-> "Some", x |-> x]
TVec(seq) == [t |-> "Vec", a |-> seq]
THashMap(m) == [t |-> "HashMap", m |-> m]
TStruct(name, f) == [t |-> "struct", name |-> name, f |-> f]
TEnum(name, variant) == [t |-> "enum", name |-> name, variant |-> variant]
TVersion(v) ==
    [t |-> "Version", major |-> v.major, minor |-> v.minor,
     patch |-> v.patch, developer |-> v.developer]

(***************************************************************************)
(* Object keys as text.  TLC strings are atomic, so the characters of the  *)
(* keys the model uses are tabulated.                                      *)
(***************************************************************************)
Chars ==
    [k \in {"", "0", "1", "2", "3", "10", "01", "-1", "x", "1x"} |->
        CASE k = "" -> << >>
          [] k = "0" -> <<"0">>
          [] k = "1" -> <<"1">>
          [] k = "2" -> <<"2">>
          [] k = "3" -> <<"3">>
          [] k = "10" -> <<"1", "0">>
          [] k = "01" -> <<"0", "1">>
          [] k = "-1" -> <<"-", "1">>
          [] k = "x" -> <<"x">>
          [] k = "1x" -> <<"1", "x">>]

DigitChars == <<"0", "1", "2", "3", "4", "5", "6", "7", "8", "9">>

IsDigit(c) == \E d \in 1..10 : DigitChars[d] = c

DigitValue(c) == (CHOOSE d \in 1..10 : DigitChars[d] = c) - 1

RECURSIVE DecimalValue(_)
DecimalValue(cs) ==
    IF cs = << >> THEN 0
    ELSE 10 * DecimalValue(SubSeq(cs, 1, Len(cs) - 1)) + DigitValue(cs[Len(cs)])

RECURSIVE DecimalChars(_)
DecimalChars(n) ==
    IF n < 10 THEN <<DigitChars[n + 1]>>
    ELSE DecimalChars(n \div 10) \o <<DigitChars[(n % 10) + 1]>>

\* Small integers to and from the eight digits.
ToBe(n) == <<0, 0, 0, 0, 0, n \div 65536, (n \div 256) % 256, n % 256>>
FromBe(be) == be[6] * 65536 + be[7] * 256 + be[8]

(***************************************************************************)
(* Deserialize (derive(Deserialize) over serde_json)                       *)
(***************************************************************************)
IsU64(j) == j.t = "num" /\ ~j.neg /\ j.frac = "int"

\* Fits an unsigned integer of `bytes` bytes.
Fits(be, bytes) == \A i \in 1..(8 - bytes) : be[i] = 0

NonZero(be) == \E i \in 1..8 : be[i] # 0

DeUInt(j, bytes) ==
    IF j.t # "num" THEN SerdeErr("invalid type")
    ELSE IF ~IsU64(j) THEN SerdeErr("invalid type")
    ELSE IF ~Fits(j.be, bytes) THEN SerdeErr("invalid value")
    ELSE Ok(TUInt(j.be))

DeNonZeroUsize_zero_ok(j) == DeUInt(j, 8)

DeNonZeroUsize(j) ==
    LET r == DeUInt(j, 8)
    IN  IF r.ok /\ ~NonZero(r.val.be) THEN SerdeErr("invalid value") ELSE r

DePrim(name, j) ==
    CASE name = "String" ->
            IF j.t = "str" THEN Ok(TString(j.s)) ELSE SerdeErr("invalid type")
      [] name = "bool" ->
            IF j.t = "bool" THEN Ok(TBool(j.b)) ELSE SerdeErr("invalid type")
      [] name = "f64" ->
            IF j.t = "num" THEN Ok(TF64(j.neg, j.be, j.frac = "half"))
            ELSE SerdeErr("invalid type")
      [] name = "u8" -> DeUInt(j, 1)
      [] name = "u16" -> DeUInt(j, 2)
      [] name = "u32" -> DeUInt(j, 4)
      [] name = "usize" -> DeUInt(j, 8)    \* a 64-bit target
      [] name = "NonZeroUsize" -> DeNonZeroUsize(j)

\* An object key read as the map's key type: a String key is the text, an
\* integer key is the text parsed as a JSON number.
DeKey(kty, k) ==
    IF kty.name = "String" THEN Ok(TString(k))
    ELSE LET cs == Chars[k]
         IN  IF cs = << >> \/ ~(IsDigit(cs[1]) \/ cs[1] = "-")
             THEN SerdeErr("expected numeric key")
             ELSE IF (\A i \in 1..Len(cs) : IsDigit(cs[i]))
                     /\ (Len(cs) = 1 \/ cs[1] # "0")
             THEN DePrim(kty.name, JNum64(ToBe(DecimalValue(cs))))
             ELSE IF cs[1] = "-" /\ Len(cs) > 1
                     /\ (\A i \in 2..Len(cs) : IsDigit(cs[i]))
             THEN SerdeErr("invalid value")
             ELSE SerdeErr("invalid number")

DeEnum(name, j) ==
    LET vs == Variants(name)
        Named(w) == {i \in 1..Len(vs) : vs[i].wire = w}
    IN  IF j.t = "str"
        THEN IF Named(j.s) # {}
             THEN Ok(TEnum(name, vs[CHOOSE i \in Named(j.s) : TRUE].variant))
             ELSE SerdeErr("unknown variant")
        ELSE IF j.t = "obj" /\ Cardinality(DOMAIN j.o) = 1
        THEN LET w == CHOOSE k \in DOMAIN j.o : TRUE
             IN  IF Named(w) = {} THEN SerdeErr("unknown variant")
                 ELSE IF j.o[w].t # "null" THEN SerdeErr("invalid type")
                 ELSE Ok(TEnum(name, vs[CHOOSE i \in Named(w) : TRUE].variant))
        ELSE SerdeErr("invalid type")

\* The first failure of a sequence of results, or none.
FirstErr(rs) ==
    LET bad == {i \in DOMAIN rs : ~rs[i].ok}
    IN  rs[CHOOSE i \in bad : \A b \in bad : i <= b]

AllOk(rs) == \A i \in DOMAIN rs : rs[i].ok

RECURSIVE Deserialize(_, _)
DeVec(ty, j) ==
    IF j.t # "arr" THEN SerdeErr("invalid type")
    ELSE LET rs == [i \in 1..Len(j.a) |-> Deserialize(ty.of, j.a[i])]
         IN  IF AllOk(rs) THEN Ok(TVec([i \in 1..Len(j.a) |-> rs[i].val]))
             ELSE FirstErr(rs)

DeOption(ty, j) ==
    IF j.t = "null" THEN Ok(TNone)
    ELSE LET r == Deserialize(ty.of, j)
         IN  IF r.ok THEN Ok(TSome(r.val)) ELSE r

DeHashMap(ty, j) ==
    IF j.t # "obj" THEN SerdeErr("invalid type")
    ELSE LET ks == DOMAIN j.o
             kr == [k \in ks |-> DeKey(ty.key, k)]
             vr == [k \in ks |-> Deserialize(ty.of, j.o[k])]
             bad == {k \in ks : ~kr[k].ok \/ ~vr[k].ok}
         IN  IF bad = {}
             THEN Ok(THashMap([x \in {kr[k].val : k \in ks} |->
                        vr[CHOOSE k \in ks : kr[k].val = x].val]))
             ELSE LET k == CHOOSE b \in bad : TRUE
                  IN  IF ~kr[k].ok THEN kr[k] ELSE vr[k]

\* A struct field that the wire object does not carry: Option fields read
\* as None, any other field is an error.
MissingField(fd) ==
    IF fd.ty.k = "option" THEN Ok(TNone) ELSE SerdeErr("missing field")

DeStruct(name, j) ==
    LET fs == Fields(name)
        live == {i \in 1..Len(fs) : ~fs[i].skip}
        \* position of live field i among the live fields
        Pos(i) == Cardinality({l \in live : l <= i})
        Built(rs) == TStruct(name, [n \in {fs[i].field : i \in 1..Len(fs)} |->
                        rs[CHOOSE i \in 1..Len(fs) : fs[i].field = n].val])
    IN  IF j.t = "obj"
        THEN LET present == {i \in live : fs[i].wire \in DOMAIN j.o}
                 rs == [i \in 1..Len(fs) |->
                          IF fs[i].skip THEN Ok(TNone)
                          ELSE IF i \in present
                          THEN Deserialize(fs[i].ty, j.o[fs[i].wire])
                          ELSE MissingField(fs[i])]
                 badPresent == {i \in present : ~rs[i].ok}
             IN  IF badPresent # {} THEN rs[CHOOSE i \in badPresent : TRUE]
                 ELSE IF AllOk(rs) THEN Ok(Built(rs))
                 ELSE FirstErr(rs)
        ELSE IF j.t = "arr"
        THEN LET n == Cardinality(live)
                 rs == [i \in 1..Len(fs) |->
                          IF fs[i].skip THEN Ok(TNone)
                          ELSE IF Pos(i) <= Len(j.a)
                          THEN Deserialize(fs[i].ty, j.a[Pos(i)])
                          ELSE SerdeErr("invalid length")]
             IN  IF ~AllOk(rs) THEN FirstErr(rs)
                 ELSE IF Len(j.a) > n THEN SerdeErr("trailing characters")
                 ELSE Ok(Built(rs))
        ELSE SerdeErr("invalid type")

\* #[serde(from = "u64")]: read a u64, then Version::from.
DeVersion(j) ==
    IF IsU64(j) THEN Ok(TVersion(VersionFromU64(j.be)))
    ELSE SerdeErr("invalid type")

Deserialize(ty, j) ==
    CASE ty.k = "prim" -> DePrim(ty.name, j)
      [] ty.k = "enum" -> DeEnum(ty.name, j)
      [] ty.k = "version" -> DeVersion(j)
      [] ty.k = "option" -> DeOption(ty, j)
      [] ty.k = "vec" -> DeVec(ty, j)
      [] ty.k = "map" -> DeHashMap(ty, j)
      [] ty.k = "struct" -> DeStruct(ty.name, j)

(***************************************************************************)
(* Serialize (derive(Serialize) over serde_json)                           *)
(***************************************************************************)
\* An integer map key is written as its decimal text.
SeKey(x) ==
    IF x.t = "String" THEN x.s
    ELSE CHOOSE k \in DOMAIN Chars : Chars[k] = DecimalChars(FromBe(x.be))

SeEnum(x) ==
    LET vs == Variants(x.name)
    IN  JStr(vs[CHOOSE i \in 1..Len(vs) : vs[i].variant = x.variant].wire)

\* Version carries serde(from = "u64") and no serde(into): Serialize is the
\* derived one, a struct of the four fields.
SeVersion(x) ==
    JObj([n \in {"major", "minor", "patch", "developer"} |->
            CASE n = "major" -> JNum64(ToBe(x.major))
              [] n = "minor" -> JNum64(ToBe(x.minor))
              [] n = "patch" -> JNum64(ToBe(x.patch))
              [] n = "developer" -> JNum64(ToBe(x.developer))])

RECURSIVE Serialize(_)
SeStruct(x) ==
    LET fs == Fields(x.name)
        live == {i \in 1..Len(fs) : ~fs[i].skip}
    IN  JObj([w \in {fs[i].wire : i \in live} |->
                Serialize(x.f[fs[CHOOSE i \in live : fs[i].wire = w].field])])

SeHashMap(x) ==
    JObj([k \in {SeKey(e) : e \in DOMAIN x.m} |->
            Serialize(x.m[CHOOSE e \in DOMAIN x.m : SeKey(e) = k])])

Serialize(x) ==
    CASE x.t = "String" -> JStr(x.s)
      [] x.t = "bool" -> JBool(x.b)
      [] x.t = "uint" -> JNum64(x.be)
      [] x.t = "f64" -> JNumber(x.neg, x.be, IF x.half THEN "half" ELSE "zero")
      [] x.t = "enum" -> SeEnum(x)
      [] x.t = "Version" -> SeVersion(x)
      [] x.t = "None" -> JNull
      [] x.t = "Some" -> Serialize(x.x)
      [] x.t = "Vec" -> JArr([i \in 1..Len(x.a) |-> Serialize(x.a[i])])
      [] x.t = "HashMap" -> SeHashMap(x)
      [] x.t = "struct" -> SeStruct(x)

(***************************************************************************)
(* SpecVersion: Version::from, then Serialize and Deserialize of a Version *)
(***************************************************************************)
Idle == [t |-> "idle"]

U64Samples == [1..8 -> ByteSamples]

CliIdle ==
    /\ infile = Idle
    /\ outform = Idle
    /\ pc = Idle
    /\ input = Idle
    /\ parseable = Idle
    /\ input_bytes = Idle
    /\ json = Idle
    /\ typed = Idle
    /\ data_to_write = Idle
    /\ outfile = Idle
    /\ writes = 0
    /\ ran = << >>
    /\ result = Idle

SchemaIdle ==
    /\ kind = Idle
    /\ doc = Idle
    /\ parsed = Idle
    /\ rendered = Idle
    /\ reparsed = Idle

InitVersion ==
    /\ value \in U64Samples
    /\ version = Idle
    /\ serialized = Idle
    /\ deserialized = Idle
    /\ SchemaIdle
    /\ CliIdle

\* Version::from(value)
FromU64 ==
    /\ version = Idle
    /\ version' = TVersion(VersionFromU64(value))
    /\ UNCHANGED <<value, serialized, deserialized, schemaVars, cliVars>>

\* serde_json::to_value(&version)
SerializeVersion ==
    /\ version # Idle
    /\ serialized = Idle
    /\ serialized' = Serialize(version)
    /\ UNCHANGED <<value, version, deserialized, schemaVars, cliVars>>

\* serde_json::from_value::<Version>(serialized)
DeserializeVersion ==
    /\ serialized # Idle
    /\ deserialized = Idle
    /\ deserialized' = Deserialize(VersionTy, serialized)
    /\ UNCHANGED <<value, version, serialized, schemaVars, cliVars>>

NextVersion == FromU64 \/ SerializeVersion \/ DeserializeVersion

SpecVersion == InitVersion /\ [][NextVersion]_vars

\* C1: for every u64 with big-endian bytes b0..b7, Version::from gives
\* major = b0 + 256*b1, minor = b2 + 256*b3, patch = b4 + 256*b5 and
\* developer = b6 + 256*b7, each within 0..65535.
C1_UnpackLittleEndianPairs ==
    version # Idle =>
        /\ version.major = value[1] + 256 * value[2]
        /\ version.minor = value[3] + 256 * value[4]
        /\ version.patch = value[5] + 256 * value[6]
        /\ version.developer = value[7] + 256 * value[8]
        /\ \A c \in {version.major, version.minor, version.patch,
                     version.developer} : c \in 0..65535

\* A Version built from a u64 whose pairs are not palindromes, so that the
\* byte order within a pair shows, and whose top component is 65535.
C1_Witness ==
    /\ version # Idle
    /\ value[1] # value[2]
    /\ value[7] = 255 /\ value[8] = 255
    /\ version.developer = 65535

\* C2: the Version the program writes out reads back as the same Version:
\* unpack(pack(a,b,c,d)) = (a,b,c,d).
C2_PackInvertsUnpack ==
    deserialized # Idle => deserialized = Ok(version)

(***************************************************************************)
(* Sample wire documents                                                   *)
(***************************************************************************)
WPosition == JObj(("x" :> JNumber(TRUE, ToBe(1), "half")) @@ ("y" :> JNum(2)))

WColor ==
    JObj(("r" :> JNum(1)) @@ ("g" :> JNumber(FALSE, ToBe(0), "half"))
         @@ ("b" :> JNum(0)) @@ ("a" :> JNum(1)))

WSignalId == JObj(("name" :> JStr("iron-plate")) @@ ("type" :> JStr("item")))

WConnectionData ==
    JObj(("entity_id" :> JNum(2)) @@ ("circuit_id" :> JStr("Lamp")))

WConnectionPoint ==
    JObj(("red" :> JArr(<<WConnectionData>>)) @@ ("green" :> JArr(<< >>)))

WConnection == JObj(("1" :> WConnectionPoint) @@ ("2" :> WConnectionPoint))

\* The key sets the sample connector maps are built over.
ConnectionKeySets ==
    { {"1"}, {"0"}, {"1", "2"}, {"0", "1"}, {"x"}, {"01"} }

WConnections(keys) == JObj([k \in keys |-> WConnection])

\* The three fields every entity prototype carries.
WEntityCore ==
    ("entity_number" :> JNum(1)) @@ ("name" :> JStr("lamp"))
    @@ ("position" :> WPosition)

\* The other fields of Entity that are not Option.
WEntityRest ==
    ("items" :> JObj(("coal" :> JNum(5))))
    @@ ("recipe" :> JStr("gear"))
    @@ ("bar" :> JNum(3))
    @@ ("inventory" :> JObj(("filters" :> JArr(<< >>)) @@ ("bar" :> JNum(0))))
    @@ ("infinity_settings" :>
            JObj(("remove_unfiltered_items" :> JBool(FALSE))))
    @@ ("type" :> JStr("input"))
    @@ ("filter_mode" :> JStr("whitelist"))
    @@ ("drop_position" :> WPosition)
    @@ ("pickup_position" :> WPosition)
    @@ ("request_from_buffers" :> JBool(FALSE))
    @@ ("parameters" :>
            JObj(("playback_volume" :> JNum(1))
                 @@ ("playback_globally" :> JBool(TRUE))
                 @@ ("allow_polyphony" :> JBool(FALSE))))
    @@ ("alert_parameters" :>
            JObj(("show_alert" :> JBool(FALSE))
                 @@ ("show_on_map" :> JBool(FALSE))
                 @@ ("icon_signal_id" :> WSignalId)
                 @@ ("alert_message" :> JStr(""))))
    @@ ("auto_launch" :> JBool(FALSE))
    @@ ("variation" :> JNum(1))
    @@ ("color" :> WColor)
    @@ ("station" :> JStr(""))

\* Some Option fields, present.
WEntityOptions ==
    ("direction" :> JNum(2)) @@ ("neighbours" :> JArr(<<JNum(2)>>))
    @@ ("input_priority" :> JStr("left")) @@ ("filter" :> JNull)

WithConnections(f, keys) ==
    IF keys = {} THEN f ELSE f @@ ("connections" :> WConnections(keys))

\* An entity with only the core fields ("core") or with every field that
\* is not Option ("full"), and a connector map over `keys` (none if empty).
WEntity(form, keys) ==
    JObj(WithConnections(
            IF form = "core" THEN WEntityCore
            ELSE WEntityCore @@ WEntityRest @@ WEntityOptions, keys))

EntitySamples ==
    {WEntity(form, keys) : form \in {"core", "full"},
                           keys \in ConnectionKeySets \cup {{}}}

WCircuitCondition ==
    JObj(("first_signal" :> WSignalId) @@ ("constant" :> JNum(5))
         @@ ("comparator" :> JStr(">")))

WaitConditionSamples ==
    { JObj(("type" :> JStr("time")) @@ ("compare_type" :> JStr("or"))
           @@ ("ticks" :> JNum(60))),
      JObj(("type" :> JStr("full")) @@ ("compare_type" :> JStr("and"))),
      JObj(("type" :> JStr("item_count")) @@ ("compare_type" :> JStr("and"))
           @@ ("condition" :> WCircuitCondition)),
      JObj(("type" :> JStr("circuit")) @@ ("compare_type" :> JStr("or"))
           @@ ("condition" :> JObj(<< >>))),
      JObj(("type" :> JStr("ItemCount")) @@ ("compare_type" :> JStr("and"))) }

\* Sequences over S of length at most n.
SeqsUpTo(S, n) == UNION {[1..m -> S] : m \in 0..n}

WSchedule(wcs) ==
    JObj(("schedule" :>
            JArr(<<JObj(("station" :> JStr("A"))
                        @@ ("wait_conditions" :> JArr(wcs)))>>))
         @@ ("locomotives" :> JArr(<<JNum(1)>>)))

SampleEntity == WEntity("full", {"1", "2"})

SampleWaitCondition ==
    JObj(("type" :> JStr("item_count")) @@ ("compare_type" :> JStr("and"))
         @@ ("condition" :> WCircuitCondition))

SampleVersion == <<0, 1, 0, 1, 0, 19, 2, 0>>

DocVersions == { <<0, 0, 0, 0, 0, 0, 0, 0>>, SampleVersion }

WBlueprint(es, wcs, v) ==
    JObj(("item" :> JStr("blueprint"))
         @@ ("label" :> JStr("b"))
         @@ ("label_color" :> WColor)
         @@ ("entities" :> JArr(es))
         @@ ("tiles" :> JArr(<<JObj(("name" :> JStr("concrete"))
                                    @@ ("position" :> WPosition))>>))
         @@ ("icons" :> JArr(<<JObj(("index" :> JNum(1))
                                    @@ ("signal" :> WSignalId))>>))
         @@ ("schedules" :> JArr(<<WSchedule(wcs)>>))
         @@ ("version" :> JNum64(v)))

WBlueprintBook(bp, v) ==
    JObj(("item" :> JStr("blueprint-book"))
         @@ ("label" :> JStr("k"))
         @@ ("label_color" :> WColor)
         @@ ("blueprints" :> JArr(<<JObj(("index" :> JNum(0))
                                         @@ ("blueprint" :> bp))>>))
         @@ ("active_index" :> JNum(0))
         @@ ("version" :> JNum64(v)))

\* Every entity list with one schedule, and every wait-condition list with
\* no entity and with one entity.
BlueprintSamples ==
    {WBlueprint(es, <<SampleWaitCondition>>, v) :
        es \in SeqsUpTo(EntitySamples, MaxEntities), v \in DocVersions}
    \cup
    {WBlueprint(es, wcs, v) :
        es \in {<< >>, <<SampleEntity>>},
        wcs \in SeqsUpTo(WaitConditionSamples, MaxWaitConditions),
        v \in DocVersions}

(***************************************************************************)
(* SpecSchema: a wire document is deserialized, serialized, deserialized   *)
(***************************************************************************)
VersionIdle ==
    /\ value = Idle
    /\ version = Idle
    /\ serialized = Idle
    /\ deserialized = Idle

InitSchema ==
    /\ VersionIdle
    /\ CliIdle
    /\ kind \in {"Blueprint", "BlueprintBook"}
    /\ \E bp \in BlueprintSamples :
         doc = IF kind = "Blueprint" THEN bp
               ELSE WBlueprintBook(bp, SampleVersion)
    /\ parsed = Idle
    /\ rendered = Idle
    /\ reparsed = Idle

\* serde_json::from_str::<Blueprint | BlueprintBook>
Parse ==
    /\ parsed = Idle
    /\ parsed' = Deserialize(Struct(kind), doc)
    /\ UNCHANGED <<kind, doc, rendered, reparsed, versionVars, cliVars>>

\* serde_json::to_string of the parsed document
Render ==
    /\ parsed # Idle
    /\ parsed.ok
    /\ rendered = Idle
    /\ rendered' = Serialize(parsed.val)
    /\ UNCHANGED <<kind, doc, parsed, reparsed, versionVars, cliVars>>

\* serde_json::from_str of what Render wrote
Reparse ==
    /\ rendered # Idle
    /\ reparsed = Idle
    /\ reparsed' = Deserialize(Struct(kind), rendered)
    /\ UNCHANGED <<kind, doc, parsed, rendered, versionVars, cliVars>>

NextSchema == Parse \/ Render \/ Reparse

SpecSchema == InitSchema /\ [][NextSchema]_vars

\* The blueprint of the document: the document, or the book's first entry.
WireBlueprint(d) ==
    IF kind = "Blueprint" THEN d ELSE d.o["blueprints"].a[1].o["blueprint"]

WireEntities(d) == WireBlueprint(d).o["entities"].a

WireWaitConditions(d) ==
    WireBlueprint(d).o["schedules"].a[1].o["schedule"].a[1].o["wait_conditions"].a

TypedBlueprint(x) ==
    IF kind = "Blueprint" THEN x ELSE x.f["blueprints"].a[1].f["blueprint"]

TypedWaitConditions(x) ==
    TypedBlueprint(x).f["schedules"].a[1].f["schedule"].a[1].f["wait_conditions"].a

\* The keys of the model's key table that spell a positive integer.
PositiveIntegerKeys == {"1", "2", "3", "10"}

ConnectionKeys(e) ==
    IF "connections" \in DOMAIN e.o THEN DOMAIN e.o["connections"].o ELSE {}

IsSchemaError(r) == ~r.ok /\ r.src = "serde_json"

\* C7: a document with an entity whose connections map has the key "0"
\* fails to parse with a schema error, and a document that parses has only
\* positive-integer strings as connector-map keys.
C7_ConnectorKeysPositive ==
    parsed # Idle =>
        LET es == WireEntities(doc)
        IN  /\ (\E i \in 1..Len(es) : "0" \in ConnectionKeys(es[i]))
                    => IsSchemaError(parsed)
            /\ parsed.ok =>
                    \A i \in 1..Len(es) :
                        ConnectionKeys(es[i]) \subseteq PositiveIntegerKeys

\* An entity that carries every required field and a connector map whose
\* only key is "0" has been parsed, and the key was what failed.
C7_Witness ==
    /\ parsed # Idle
    /\ \E i \in 1..Len(WireEntities(doc)) :
          /\ ConnectionKeys(WireEntities(doc)[i]) = {"0"}
          /\ "items" \in DOMAIN WireEntities(doc)[i].o
    /\ IsSchemaError(parsed)
    /\ parsed.what = "invalid value"

\* C9: serializing a parsed document and parsing the result gives the same
\* document again.
C9_ParseRenderRoundTrip ==
    reparsed # Idle => reparsed = parsed

\* C10: a wait condition's `condition` object is kept by parsing and written
\* out again with the same key/value pairs.
C10_ConditionCarriedThrough ==
    rendered # Idle =>
        \A i \in 1..Len(WireWaitConditions(doc)) :
            "condition" \in DOMAIN WireWaitConditions(doc)[i].o =>
                /\ TypedWaitConditions(parsed.val)[i].f["condition"] # TNone
                /\ "condition" \in DOMAIN WireWaitConditions(rendered)[i].o
                /\ WireWaitConditions(rendered)[i].o["condition"]
                        = WireWaitConditions(doc)[i].o["condition"]

TypedEntities(x) == TypedBlueprint(x).f["entities"].a

\* The fields of Entity whose wire name the wire object e does not carry.
AbsentFields(e) ==
    {i \in 1..Len(Entity) : Entity[i].wire \notin DOMAIN e.o}

\* C11: a document whose entities carry only some of Entity's fields (the
\* three core fields at least, and a connector map only with positive keys)
\* parses, and every field an entity's wire object does not carry is None
\* in the parsed entity.
C11_SparseEntityParses ==
    (/\ parsed # Idle
     /\ WireWaitConditions(doc) = <<SampleWaitCondition>>
     /\ \A i \in 1..Len(WireEntities(doc)) :
            ConnectionKeys(WireEntities(doc)[i]) \subseteq PositiveIntegerKeys)
    =>
        /\ parsed.ok
        /\ \A i \in 1..Len(WireEntities(doc)) :
              \A n \in AbsentFields(WireEntities(doc)[i]) :
                 TypedEntities(parsed.val)[i].f[Entity[n].field] = TNone

(***************************************************************************)
(* Text.  A character is a one-character string; line feed and carriage    *)
(* return are written "LF" and "CR".                                       *)
(***************************************************************************)
InputChars == {"0", "A", "=", "!", "LF", "CR"}

InputTexts == SeqsUpTo(InputChars, MaxText)

\* Exchange strings without line breaks: a blueprint the Rust format
\* parses, a payload that is not a zlib stream, one that is not base64; and
\* the strings with a marker only and with nothing at all.
ExchangeSamples ==
    { <<"0", "A", "A", "A", "A">>, <<"=", "0", "A", "0", "A">>,
      <<"0", "A", "!", "A", "A">>, <<"A">>, << >> }

RECURSIVE WithLineBreaks(_, _)
\* The texts of S with up to n line-feed or carriage-return characters put
\* in at any positions.
WithLineBreaks(S, n) ==
    IF n = 0 THEN S
    ELSE LET T == WithLineBreaks(S, n - 1)
         IN  T \cup UNION {
                 {SubSeq(cs, 1, i) \o <<c>> \o SubSeq(cs, i + 1, Len(cs)) :
                     i \in 0..Len(cs), c \in {"LF", "CR"}} : cs \in T}

BrokenTexts == WithLineBreaks(ExchangeSamples, MaxBreaks)

Retain_keep_cr(cs) == SelectSeq(cs, LAMBDA c : c # "LF")

RECURSIVE Retain(_)
\* String::retain(|c| !(c == '\n' || c == '\r'))
Retain(cs) ==
    IF cs = << >> THEN << >>
    ELSE IF Head(cs) = "LF" \/ Head(cs) = "CR" THEN Retain(Tail(cs))
    ELSE <<Head(cs)>> \o Retain(Tail(cs))

(***************************************************************************)
(* base64::engine::general_purpose::STANDARD.decode                        *)
(***************************************************************************)
Base64Alphabet ==
    << "A", "B", "C", "D", "E", "F", "G", "H", "I", "J", "K", "L", "M",
       "N", "O", "P", "Q", "R", "S", "T", "U", "V", "W", "X", "Y", "Z",
       "a", "b", "c", "d", "e", "f", "g", "h", "i", "j", "k", "l", "m",
       "n", "o", "p", "q", "r", "s", "t", "u", "v", "w", "x", "y", "z",
       "0", "1", "2", "3", "4", "5", "6", "7", "8", "9", "+", "/" >>

InAlphabet(c) == \E i \in 1..64 : Base64Alphabet[i] = c

Sextet(c) == (CHOOSE i \in 1..64 : Base64Alphabet[i] = c) - 1

Base64Err(what) == [ok |-> FALSE, src |-> "base64", what |-> what]

\* The number of '=' that end cs.
RECURSIVE TrailingPads(_)
TrailingPads(cs) ==
    IF cs # << >> /\ cs[Len(cs)] = "=" THEN 1 + TrailingPads(SubSeq(cs, 1, Len(cs) - 1))
    ELSE 0

\* The three bytes of a full quad of symbols.
QuadBytes(q) ==
    LET v == Sextet(q[1]) * 262144 + Sextet(q[2]) * 4096
             + Sextet(q[3]) * 64 + Sextet(q[4])
    IN  <<v \div 65536, (v \div 256) % 256, v % 256>>

RECURSIVE FullQuads(_)
FullQuads(cs) ==
    IF Len(cs) < 4 THEN << >>
    ELSE QuadBytes(SubSeq(cs, 1, 4)) \o FullQuads(SubSeq(cs, 5, Len(cs)))

STANDARD_decode_lenient(cs) ==
    LET body == SelectSeq(cs, InAlphabet)
    IN  Ok(FullQuads(SubSeq(body, 1, 4 * (Len(body) \div 4))))

\* Padding is required and canonical, and the bits of the last symbol that
\* do not reach a byte must be zero.
STANDARD_decode(cs) ==
    LET pads == TrailingPads(cs)
        body == SubSeq(cs, 1, Len(cs) - pads)
        rem == Len(body) % 4
        last == SubSeq(body, Len(body) - rem + 1, Len(body))
    IN  IF \E i \in 1..Len(body) : ~InAlphabet(body[i])
        THEN Base64Err("invalid byte")
        ELSE IF rem = 1 THEN Base64Err("invalid length")
        ELSE IF (rem = 0 /\ pads # 0) \/ (rem = 2 /\ pads # 2)
                \/ (rem = 3 /\ pads # 1)
        THEN Base64Err("invalid padding")
        ELSE IF rem = 2
        THEN LET v == Sextet(last[1]) * 64 + Sextet(last[2])
             IN  IF v % 16 # 0 THEN Base64Err("invalid last symbol")
                 ELSE Ok(FullQuads(body) \o <<v \div 16>>)
        ELSE IF rem = 3
        THEN LET v == Sextet(last[1]) * 4096 + Sextet(last[2]) * 64
                      + Sextet(last[3])
             IN  IF v % 4 # 0 THEN Base64Err("invalid last symbol")
                 ELSE Ok(FullQuads(body) \o <<v \div 1024, (v \div 4) % 256>>)
        ELSE Ok(FullQuads(body))

(***************************************************************************)
(* Text of the decompressed stream and serde_json::from_str / to_string    *)
(***************************************************************************)
\* A JSON text: its layout ("compact" as serde_json writes it, or "spaced")
\* and the value it spells.
JsonText(layout, v) == [t |-> "text", form |-> layout, v |-> v]

\* A text that is not JSON: the empty text or some other text.
PlainText(form) == [t |-> "text", form |-> form, v |-> JNull]

\* The text format!("{:?}", x) gives for a typed document.
DebugText(x) == [t |-> "text", form |-> "debug", dbg |-> x]

IsJsonText(txt) == txt.form \in {"compact", "spaced"}

\* serde_json::from_str::<Value>
FromStr(txt) ==
    IF IsJsonText(txt) THEN Ok(txt.v)
    ELSE IF txt.form = "empty" THEN SerdeErr("EOF while parsing a value")
    ELSE SerdeErr("expected value")

\* Value::to_string
to_string(v) == JsonText("compact", v)

\* serde_json::from_str::<Map<String, Value>>: an object, or null read as
\* the empty map.
FromStrMap(txt) ==
    LET r == FromStr(txt)
    IN  IF ~r.ok THEN r
        ELSE IF r.val.t = "obj" THEN Ok(r.val.o)
        ELSE IF r.val.t = "null" THEN Ok(<< >>)
        ELSE SerdeErr("invalid type")

\* serde_json::from_str::<T> for a type of blueprint.rs
FromStrTyped(name, txt) ==
    LET r == FromStr(txt)
    IN  IF ~r.ok THEN r ELSE Deserialize(Struct(name), r.val)

(***************************************************************************)
(* flate2::read::ZlibDecoder + read_to_string.  The library is outside the *)
(* repository: it is a fixed partial function from byte strings to text,   *)
(* given here by the streams the sample inputs can spell.                  *)
(***************************************************************************)
ZlibErr == [ok |-> FALSE, src |-> "zlib", what |-> "corrupt deflate stream"]

Utf8Err == [ok |-> FALSE, src |-> "utf8", what |-> "stream did not contain valid UTF-8"]

SampleBlueprint ==
    WBlueprint(<<SampleEntity>>, <<SampleWaitCondition>>, SampleVersion)

SampleBook == WBlueprintBook(SampleBlueprint, SampleVersion)

ZlibStreams ==
    (<< >> :> Ok(PlainText("empty")))
    @@ (<<0>> :> Utf8Err)
    @@ (<<208>> :> Ok(PlainText("other")))
    @@ (<<0, 0>> :> Ok(JsonText("compact", JArr(<< >>))))
    @@ (<<0, 13>> :> Ok(JsonText("compact", JObj(<< >>))))
    @@ (<<3, 77>> :> Ok(JsonText("spaced", JObj(("other" :> JNum(1))))))
    @@ (<<3, 64>> :> Ok(JsonText("compact", JNull)))
    @@ (<<0, 0, 0>> :>
            Ok(JsonText("compact", JObj(("blueprint" :> SampleBlueprint)))))
    @@ (<<0, 0, 52>> :>
            Ok(JsonText("spaced", JObj(("blueprint" :> SampleBlueprint)))))
    @@ (<<0, 13, 0>> :>
            Ok(JsonText("compact", JObj(("blueprint" :>
                WBlueprint(<<WEntity("full", {"0"})>>, << >>, SampleVersion))))))
    @@ (<<0, 13, 52>> :>
            Ok(JsonText("compact", JObj(("blueprint_book" :> SampleBook)))))
    @@ (<<3, 77, 0>> :>
            Ok(JsonText("compact", JObj(("blueprint" :> SampleBlueprint)
                                        @@ ("blueprint_book" :> SampleBook)))))
    @@ (<<3, 77, 52>> :>
            Ok(JsonText("compact", JObj(("blueprint" :>
                WBlueprint(<<WEntity("core", {})>>, << >>, SampleVersion))))))
    @@ (<<3, 64, 0>> :>
            Ok(JsonText("compact", JObj(("blueprint_book" :> JStr("book"))))))
    @@ (<<211, 77, 52>> :>
            Ok(JsonText("spaced", JObj(("blueprint" :> JNum(1))
                                       @@ ("blueprint_book" :> SampleBook)))))

\* ZlibDecoder::new(&input_bytes[..]).read_to_string(&mut json)
Inflate(bytes) ==
    IF bytes \in DOMAIN ZlibStreams THEN ZlibStreams[bytes] ELSE ZlibErr

(***************************************************************************)
(* decode_bp (main.rs 13-59)                                               *)
(***************************************************************************)
DataErr ==
    [ok |-> FALSE, src |-> "message",
     what |-> "given data is not a blueprint or blueprint book"]

FsErr(what) == [ok |-> FALSE, src |-> "fs", what |-> what]

Panic == [t |-> "panic"]

Unit == [t |-> "unit"]

\* The `?` operator: on Err the function returns, otherwise it goes on.
Try_not_before_write(r, next) ==
    IF r.ok \/ next = "write" THEN next ELSE "done"

Try(r, next) == IF r.ok THEN next ELSE "done"

ParseDocument_neither_as_empty(txt) ==
    LET v == FromStrMap(txt)
    IN  IF ~v.ok THEN v
        ELSE IF "blueprint" \in DOMAIN v.val
        THEN FromStrTyped("Blueprint", to_string(v.val["blueprint"]))
        ELSE IF "blueprint_book" \in DOMAIN v.val
        THEN FromStrTyped("BlueprintBook", to_string(v.val["blueprint_book"]))
        ELSE Ok(TNone)

\* Lines 37-52 without the format! calls: the typed document or the error.
ParseDocument(txt) ==
    LET v == FromStrMap(txt)
    IN  IF ~v.ok THEN v
        ELSE IF "blueprint" \in DOMAIN v.val
        THEN FromStrTyped("Blueprint", to_string(v.val["blueprint"]))
        ELSE IF "blueprint_book" \in DOMAIN v.val
        THEN FromStrTyped("BlueprintBook", to_string(v.val["blueprint_book"]))
        ELSE DataErr

\* What a match arm leaves behind: the text to write and, in the Rust arm,
\* the typed document (`bp` or `bp_book`) it was formatted from.
Arm(data, document) == [data |-> data, doc |-> document]

\* format!("{:?}", bp) on a parsed document; a parse error passes through.
Formatted(r) == IF r.ok THEN Ok(Arm(DebugText(r.val), r.val)) ELSE r

Reserialized(txt, v) == IF v.ok THEN Ok(Arm(to_string(v.val), Idle)) ELSE v

MatchOutform_reserialized(form, txt) ==
    IF form = "JSON" THEN Reserialized(txt, FromStr(txt))
    ELSE Formatted(ParseDocument(txt))

\* match args.outform { ... } (lines 33-54)
MatchOutform(form, txt) ==
    IF form = "JSON" THEN Ok(Arm(txt, Idle))
    ELSE Formatted(ParseDocument(txt))

Absent == [t |-> "absent"]
Unreadable == [t |-> "unreadable"]
File(content) == [t |-> "file", content |-> content]
Truncated == [t |-> "truncated"]

Init ==
    /\ VersionIdle
    /\ SchemaIdle
    /\ infile \in {Unreadable}
                   \cup {File(txt) : txt \in InputTexts \cup BrokenTexts}
    /\ outform \in {"JSON", "Rust"}
    /\ pc = "read"
    /\ input = Idle
    /\ parseable = Idle
    /\ input_bytes = Idle
    /\ json = Idle
    /\ typed = Idle
    /\ data_to_write = Idle
    /\ outfile = Absent
    /\ writes = 0
    /\ ran = << >>
    /\ result = Idle

\* Returning from decode_bp when `next` is "done".
Return(r, next) == result' = IF next = "done" THEN r ELSE result

\* line 14: fs::read_to_string(&args.infile)?
ReadInfile ==
    /\ pc = "read"
    /\ LET r == IF infile = Unreadable THEN FsErr("read") ELSE Ok(infile.content)
           next == Try(r, "retain")
       IN  /\ pc' = next
           /\ input' = IF r.ok THEN r.val ELSE input
           /\ Return(r, next)
    /\ ran' = Append(ran, "read")
    /\ UNCHANGED <<infile, outform, parseable, input_bytes, json, typed,
                   data_to_write, outfile, writes>>
    /\ UNCHANGED <<versionVars, schemaVars>>

\* line 17: input.retain(..)
RetainInput ==
    /\ pc = "retain"
    /\ input' = Retain(input)
    /\ pc' = "version"
    /\ ran' = Append(ran, "retain")
    /\ UNCHANGED <<infile, outform, parseable, input_bytes, json, typed,
                   data_to_write, outfile, writes, result>>
    /\ UNCHANGED <<versionVars, schemaVars>>

\* lines 20-23: input_iter.next().unwrap(), then collect the rest
DropVersionByte ==
    /\ pc = "version"
    /\ IF input = << >>
       THEN /\ result' = Panic
            /\ pc' = "done"
            /\ UNCHANGED parseable
       ELSE /\ parseable' = Tail(input)
            /\ pc' = "base64"
            /\ UNCHANGED result
    /\ ran' = Append(ran, "version")
    /\ UNCHANGED <<infile, outform, input, input_bytes, json, typed,
                   data_to_write, outfile, writes>>
    /\ UNCHANGED <<versionVars, schemaVars>>

\* lines 25-27: STANDARD.decode(parseable).map_err(..)?
DecodeBase64 ==
    /\ pc = "base64"
    /\ LET r == STANDARD_decode(parseable)
           next == Try(r, "inflate")
       IN  /\ pc' = next
           /\ input_bytes' = IF r.ok THEN r.val ELSE input_bytes
           /\ Return(r, next)
    /\ ran' = Append(ran, "base64")
    /\ UNCHANGED <<infile, outform, input, parseable, json, typed,
                   data_to_write, outfile, writes>>
    /\ UNCHANGED <<versionVars, schemaVars>>

\* lines 29-31: z.read_to_string(&mut json)?
InflateBytes ==
    /\ pc = "inflate"
    /\ LET r == Inflate(input_bytes)
           next == Try(r, "match")
       IN  /\ pc' = next
           /\ json' = IF r.ok THEN r.val ELSE json
           /\ Return(r, next)
    /\ ran' = Append(ran, "inflate")
    /\ UNCHANGED <<infile, outform, input, parseable, input_bytes, typed,
                   data_to_write, outfile, writes>>
    /\ UNCHANGED <<versionVars, schemaVars>>

\* The assignments of the match statement, given the arm's result r.
MatchDone(r) ==
    /\ pc' = Try(r, "write")
    /\ data_to_write' = IF r.ok THEN r.val.data ELSE data_to_write
    /\ typed' = IF r.ok THEN r.val.doc ELSE typed
    /\ Return(r, Try(r, "write"))

\* lines 33-54: let data_to_write = match args.outform { .. }
Match ==
    /\ pc = "match"
    /\ MatchDone(MatchOutform(outform, json))
    /\ ran' = Append(ran, "match")
    /\ UNCHANGED <<infile, outform, input, parseable, input_bytes, json,
                   outfile, writes>>
    /\ UNCHANGED <<versionVars, schemaVars>>

\* lines 56-58: fs::write(&args.outfile, data_to_write)?; Ok(()).  A write
\* that fails leaves the file as it was or created and cut short.
Write ==
    /\ pc = "write"
    /\ \E r \in {Ok(Unit), FsErr("write")} :
         /\ result' = r
         /\ IF r.ok THEN outfile' = File(data_to_write)
            ELSE outfile' \in {outfile, Truncated}
    /\ writes' = writes + 1
    /\ pc' = "done"
    /\ ran' = Append(ran, "write")
    /\ UNCHANGED <<infile, outform, input, parseable, input_bytes, json,
                   typed, data_to_write>>
    /\ UNCHANGED <<versionVars, schemaVars>>

Next ==
    \/ ReadInfile
    \/ RetainInput
    \/ DropVersionByte
    \/ DecodeBase64
    \/ InflateBytes
    \/ Match
    \/ Write

Spec == Init /\ [][Next]_vars

(***************************************************************************)
(* Properties of decode_bp                                                 *)
(***************************************************************************)
IsErr(r) == r # Idle /\ r # Panic /\ ~r.ok

\* The error taxonomy, by where the std::io::Error came from.
IsFormatError(r) == IsErr(r) /\ r.src \in {"base64", "zlib", "utf8"}
IsDataError(r) == IsErr(r) /\ r.src = "message"

Failed == pc = "done" /\ (result = Panic \/ IsErr(result))

Last(q) == q[Len(q)]

HasRun(stage) == \E i \in 1..Len(ran) : ran[i] = stage

WellFormedBase64(cs) ==
    LET n == Len(cs)
    IN  /\ n % 4 = 0
        /\ \A i \in 1..n : InAlphabet(cs[i]) \/ (cs[i] = "=" /\ i >= n - 1)
        /\ (n > 0 /\ cs[n] # "=") => cs[n - 1] # "="

\* C4: when the text after the marker is not well-formed base64, decode_bp
\* returns a format error (it does not panic) and neither inflates, parses
\* nor writes.
C4_InvalidBase64IsFormatError ==
    (pc = "done" /\ HasRun("base64") /\ ~WellFormedBase64(parseable)) =>
        /\ IsFormatError(result)
        /\ result.src = "base64"
        /\ ran = <<"read", "retain", "version", "base64">>
        /\ json = Idle /\ typed = Idle /\ data_to_write = Idle
        /\ writes = 0 /\ outfile = Absent

\* An input with a marker and a remainder that is not base64 has been run.
C4_Witness ==
    /\ pc = "done"
    /\ HasRun("base64")
    /\ ~WellFormedBase64(parseable)
    /\ Len(parseable) = 4
    /\ IsFormatError(result)

RootKeys(txt) ==
    IF txt # Idle /\ IsJsonText(txt) /\ txt.v.t = "obj"
    THEN {k \in {"blueprint", "blueprint_book"} : k \in DOMAIN txt.v.o}
    ELSE {"not an object"}

\* C5 as stated: a JSON root object with neither key makes decoding fail
\* with a data error, and nothing is written.
C5_NeitherKeyIsDataError ==
    (pc = "done" /\ RootKeys(json) = {}) =>
        IsDataError(result) /\ writes = 0 /\ outfile = Absent

\* C5 amended: with the Rust output format, a JSON root object with neither
\* key makes decoding fail with a data error and nothing is written.
C5_NeitherKeyIsDataErrorForRust ==
    (pc = "done" /\ RootKeys(json) = {} /\ outform = "Rust") =>
        IsDataError(result) /\ writes = 0 /\ outfile = Absent

C5_Witness ==
    /\ pc = "done"
    /\ outform = "Rust"
    /\ RootKeys(json) = {}
    /\ "other" \in DOMAIN json.v.o
    /\ IsDataError(result)

\* C6: root dispatch rejects a root object that has both keys with a data
\* error and parses it as neither variant.
C6_BothKeysRejected ==
    (pc = "done" /\ outform = "Rust"
        /\ RootKeys(json) = {"blueprint", "blueprint_book"}) =>
        IsDataError(result) /\ typed = Idle /\ writes = 0

\* C8: with the JSON output format, once the envelope is decoded the text
\* handed to fs::write is the decompressed text, and a successful run leaves
\* exactly that text in the output file.
C8_JsonOutputIsDecompressedText ==
    (outform = "JSON" /\ json # Idle) =>
        /\ pc \in {"write", "done"} => data_to_write = json
        /\ pc = "done" => writes = 1
        /\ (pc = "done" /\ result = Ok(Unit)) => outfile = File(json)

\* A JSON text that is not laid out as serde_json would write it has been
\* written out.
C8_Witness ==
    /\ outform = "JSON"
    /\ pc = "done"
    /\ json # Idle
    /\ json.form = "spaced"
    /\ outfile = File(json)

\* Lines 17-54 as one function of the file's text and the output format:
\* the match arm's result, the error returned with `?`, or the panic.
DecodeOutcome(text, form) ==
    IF Retain(text) = << >> THEN Panic
    ELSE LET b == STANDARD_decode(Tail(Retain(text)))
         IN  IF ~b.ok THEN b
             ELSE IF ~Inflate(b.val).ok THEN Inflate(b.val)
             ELSE MatchOutform(form, Inflate(b.val).val)

\* What the run has come to before fs::write: the match arm's result, or
\* the error or panic that ended it.
Outcome ==
    IF data_to_write # Idle THEN Ok(Arm(data_to_write, typed)) ELSE result

\* The text without its line-feed and carriage-return characters.
Stripped(cs) == SelectSeq(cs, LAMBDA c : c \notin {"LF", "CR"})

\* The text without line breaks and with "0" for its first character.  Two
\* texts have the same canonical text exactly when they differ in line
\* breaks and in the first character that is not a line break.
Canonical(cs) ==
    IF Stripped(cs) = << >> THEN << >> ELSE <<"0">> \o Tail(Stripped(cs))

\* C12: every line feed and carriage return is stripped before the marker
\* is removed: the text handed to base64 is the file's text without line
\* breaks and without its first remaining character, and the run comes to
\* what decoding the canonical text comes to, so neither line breaks at any
\* position nor the marker's value change the outcome.  The outcome is
\* compared where the run stands before fs::write or has ended without it.
C12_LineBreaksAndMarkerIgnored ==
    infile # Unreadable =>
        /\ HasRun("base64") =>
              /\ Stripped(infile.content) # << >>
              /\ parseable = Tail(Stripped(infile.content))
        /\ (pc \in {"write", "done"} /\ writes = 0) =>
              Outcome = DecodeOutcome(Canonical(infile.content), outform)

\* A text with a line feed before the marker and a carriage return inside
\* the payload has been decoded, parsed and written.
C12_Witness ==
    /\ pc = "done"
    /\ infile # Unreadable
    /\ Len(infile.content) > MaxText
    /\ infile.content[1] = "LF"
    /\ \E i \in 3..Len(infile.content) - 1 : infile.content[i] = "CR"
    /\ outform = "Rust"
    /\ typed # Idle
    /\ result = Ok(Unit)

\* C13: decode_bp ends with a result value, Ok or an error returned to
\* main, for every input text, and never panics.
C13_NeverPanics ==
    pc = "done" => result # Panic /\ (result = Ok(Unit) \/ IsErr(result))

====
